---- MODULE Spec2Model ----
(***************************************************************************)
(* Reconciliation and enrichment pipeline of the Chinese-Vietnamese        *)
(* dictionary: the CC-CEDICT integrator (integrate_cedict.py), the         *)
(* DeepSeek enrichment client and the batch scheduler                      *)
(* (deepseek_enhancer.py).                                                 *)
(*                                                                         *)
(* A text value is a sequence of symbols.  <<>> is the empty string '',    *)
(* the symbol " " is white space, NULL is Python's None / SQL NULL.        *)
(***************************************************************************)
EXTENDS Integers, Sequences, FiniteSets, TLC

VARIABLES
    dictionary,       \* Primary Store: table dictionary, rows in id order
    cedict_entries,   \* Source Store: table cedict_entries, rows in id order
    pc,               \* position inside integrate_full
    limit,            \* add_new_limit of the running integrate_full
    total_before,     \* main_stats['total_entries']
    matches,          \* list returned by find_matching_entries
    match_i,          \* loop index of update_existing_entries
    updated_count,    \* local of update_existing_entries
    existing_words,   \* local of add_new_cedict_entries
    new_entries,      \* local of add_new_cedict_entries (not yet inserted)
    added_count,      \* local of add_new_cedict_entries
    store_before,     \* history: the Primary Store when the running integrate_full began
    results,          \* results of the finished integrate_full runs
    insert_log,       \* history: one record per row inserted by the insert phase
    committed,        \* the Primary Store as of the last commit
    bpc,              \* position inside enhance_batch
    batch_size,       \* argument of enhance_batch
    max_entries,      \* argument of enhance_batch
    entries,          \* the rest of the batch the for loop of enhance_batch walks
    total_processed,  \* local of enhance_batch
    enhanced_count,   \* local of enhance_batch
    last_step,        \* history: the code path enhance_batch took last
    last_query,       \* history: number of rows of the last selection query
    num_queries,      \* history: number of selection queries (stops counting at max_entries + 1)
    synthesized,      \* history: <<id, kind>> of the examples and grammar results obtained so far
    handled_ids,      \* history: ids of the entries passed to enhance_entry in this run
    request,          \* the Enrichment Client method that was called
    api_outcome,      \* what the HTTP request of that call did
    returned,         \* what that call gave back to its caller
    main_db,          \* file chinese_vietnamese_dict.db: missing, empty, base or integrated schema
    cedict_db,        \* file cedict.db: missing or present
    api_key,          \* whether a DeepSeek API key is configured
    command,          \* the command line that was started
    cedict_limit,     \* its cap on new entries
    ai_limit,         \* its budget of entries to enhance
    cpc,              \* position inside the command
    exit_code,        \* exit status of the finished command
    steps,            \* history: the parts of the command that ran to their end
    faults,           \* history: the setup faults the command met
    pinyin_syllables, \* history: the syllables the argument was written from
    pinyin_input,     \* argument of convert_pinyin_tone_numbers
    pinyin_output,    \* the value it returned
    enhanced_entry,   \* argument of the last enhance_entry call made on its own
    entry_updates,    \* history: the updates that call assembled
    entry_returned,   \* the value that call returned
    update_faults,    \* history: indexes of the matched pairs whose merge raised
    table_columns,    \* columns of table dictionary
    schema_runs,      \* history: calls of add_missing_database_columns made on its own
    clock,            \* time.time(), in ticks
    last_request_time,\* attribute of the enhancer, in ticks
    call_starts,      \* history: the times at which _rate_limit let an API call start
    last_sleep        \* history: the duration the last _rate_limit passed to time.sleep

reconcilerVars == <<dictionary, cedict_entries, pc, limit, total_before, matches,
                    match_i, updated_count, existing_words, new_entries,
                    added_count, store_before, results, insert_log, committed>>

batchVars == <<bpc, batch_size, max_entries, entries, total_processed,
               enhanced_count, last_step, last_query, num_queries, synthesized,
              handled_ids>>

clientVars == <<request, api_outcome, returned>>

commandVars == <<main_db, cedict_db, api_key, command, cedict_limit, ai_limit, cpc,
                 exit_code, steps, faults>>

pinyinVars == <<pinyin_syllables, pinyin_input, pinyin_output>>

entryVars == <<enhanced_entry, entry_updates, entry_returned>>

integratorVars == <<update_faults, table_columns, schema_runs>>

rateVars == <<clock, last_request_time, call_starts, last_sleep>>

toolVars == <<commandVars, pinyinVars, entryVars, integratorVars, rateVars>>

vars == <<reconcilerVars, batchVars, clientVars, toolVars>>

-----------------------------------------------------------------------------
(* Bounds of the model *)

MaxSeed == 1      \* rows in the Primary Store before the first run
MaxSource == 4    \* rows in the Source Store
MaxCap == 2       \* largest add_new_limit
MaxRuns == 2      \* integrate_full runs in a row
MaxRows == 3      \* rows in the Primary Store when enhance_batch starts
MaxBatch == 2     \* largest batch_size
MaxBudget == 3    \* largest max_entries
MaxText == 4      \* symbols in the text the API answers with
MaxCommandRows == 2    \* rows in the Primary Store when a command line starts
MaxCommandSource == 2  \* rows in the Source Store when a command line starts
MaxCommandBudget == 1  \* largest budget of entries to enhance on a command line
MaxSyllables == 2      \* syllables in the argument of the tone conversion
MaxUpdateRows == 3     \* rows in the Primary Store when update_existing_entries is called on its own
TicksPerSecond == 2    \* resolution of the clock
MaxClock == 9          \* latest time, in ticks, at which a call may start waiting
MaxCalls == 3          \* calls of _rate_limit on one enhancer
MaxOversleep == 1      \* ticks by which time.sleep may overrun, or that pass between the two readings of the clock
MaxSchemaRuns == 2     \* calls of add_missing_database_columns in a row

-----------------------------------------------------------------------------
(* Text values *)

NULL == <<"NULL">>

\* Python truth value of a TEXT column: None and '' are falsy
Truthy(s) == s # NULL /\ s # <<>>

RECURSIVE LStrip(_)
LStrip(s) ==
    IF s # <<>> /\ Head(s) = " " THEN LStrip(Tail(s)) ELSE s

RECURSIVE RStrip(_)
RStrip(s) ==
    IF s # <<>> /\ s[Len(s)] = " " THEN RStrip(SubSeq(s, 1, Len(s) - 1)) ELSE s

\* str.strip()
Strip(s) == RStrip(LStrip(s))

\* rank of a character in SQLite's BINARY collation
CharRank(c) ==
    CASE c = "a" -> 1
      [] c = "b" -> 2
      [] c = "c" -> 3
      [] OTHER -> 4

\* s < t in the BINARY collation
RECURSIVE TextLess(_, _)
TextLess(s, t) ==
    IF t = <<>> THEN FALSE
    ELSE IF s = <<>> THEN TRUE
    ELSE IF CharRank(Head(s)) # CharRank(Head(t))
         THEN CharRank(Head(s)) < CharRank(Head(t))
         ELSE TextLess(Tail(s), Tail(t))

-----------------------------------------------------------------------------
(* JSON texts.  The symbols of a JSON text are the brackets, "m" (one      *)
(* "key": "value" member), "s" (one string literal), "w" (a word of prose)  *)
(* and white space.                                                         *)

NoSpace(s) == SelectSeq(s, LAMBDA c : c # " ")

RECURSIVE IsJsonValue(_)
IsJsonValue(t) ==
    \/ t = <<"s">>
    \/ t = <<"{", "}">>
    \/ t = <<"{", "m", "}">>
    \/ t = <<"[", "]">>
    \/ /\ Len(t) >= 3
       /\ Head(t) = "["
       /\ t[Len(t)] = "]"
       /\ IsJsonValue(SubSeq(t, 2, Len(t) - 1))

\* json.loads: the parsed value (kept as its text without white space), or
\* the exception raised
json_loads(s) ==
    IF s = NULL THEN [exc |-> "TypeError", value |-> <<>>]
    ELSE IF IsJsonValue(NoSpace(s)) THEN [exc |-> "none", value |-> NoSpace(s)]
    ELSE [exc |-> "JSONDecodeError", value |-> <<>>]

\* Python truth value of a parsed JSON value
JsonTruthy(v) == v # <<"{", "}">> /\ v # <<"[", "]">>

-----------------------------------------------------------------------------
(* Rows *)

DictRow(word, pinyin, en, vi, trad, simp, defs, src, zhuyin, hanviet, freq) ==
    [id |-> 0, word |-> word, pinyin |-> pinyin, en_meaning |-> en,
     vi_meaning |-> vi, traditional |-> trad, simplified |-> simp,
     cedict_definitions |-> defs, source |-> src, zhuyin |-> zhuyin,
     hanviet_reading |-> hanviet, frequency_rank |-> freq]

CedictRow(trad, simp, pinyin, english, defs) ==
    [id |-> 0, traditional |-> trad, simplified |-> simp, pinyin |-> pinyin,
     english |-> english, definitions |-> defs]

\* AUTOINCREMENT: the id of a row is its position in the table
Renumber(rows) == [i \in 1..Len(rows) |-> [rows[i] EXCEPT !.id = i]]

\* rows of seq at the positions in S, in table order
RECURSIVE Pick(_, _, _)
Pick(seq, S, i) ==
    IF i > Len(seq) THEN <<>>
    ELSE (IF i \in S THEN <<seq[i]>> ELSE <<>>) \o Pick(seq, S, i + 1)

\* rows the CC-CEDICT import can create: distinct (traditional, simplified,
\* pinyin), definitions a serialized non-empty list
CedictUniverse ==
    << CedictRow(<<"a">>, <<"a">>, <<"xing2">>, <<"to walk">>, <<"[", "s", "]">>),
       CedictRow(<<"a">>, <<"a">>, <<"hang2">>, <<"row">>, <<"[", "[", "s", "]", "]">>),
       CedictRow(<<"c">>, <<"b">>, <<"fa1">>, <<"to send">>, <<"[", "s", "]">>),
       CedictRow(<<"b">>, <<"b">>, <<"bo1">>, <<"wave">>, <<"[", "s", "]">>),
       CedictRow(<<"a", "a">>, <<"a", "a">>, <<"ni3", " ", "hao3">>, <<"hello">>, <<"[", "s", "]">>) >>

CedictStores ==
    { Renumber(Pick(CedictUniverse, S, 1)) :
        S \in { T \in SUBSET (1..Len(CedictUniverse)) : Cardinality(T) <= MaxSource } }

\* rows of the Primary Store before the first run
SeedUniverse ==
    << DictRow(<<"a">>, NULL, NULL, <<>>, NULL, NULL, NULL, NULL, NULL, NULL, 0),
       DictRow(<<"a">>, <<"xing">>, <<"walk">>, <<"di">>, NULL, NULL,
               <<"[", "s", "]">>, <<"seed">>, NULL, NULL, 0),
       DictRow(<<"a">>, <<"xing">>, <<"walk">>, <<"di">>, <<"a">>, <<"a">>,
               <<"[", "[", "s", "]", "]">>, <<"seed">>, NULL, NULL, 0),
       DictRow(<<"b">>, <<" ">>, <<>>, <<"gui">>, NULL, <<"b">>, NULL, NULL, NULL, NULL, 0),
       DictRow(<<"c">>, NULL, <<"send">>, <<>>, <<"c">>, NULL, NULL, NULL, NULL, NULL, 0),
       DictRow(<<"b", "a">>, <<"ba">>, NULL, <<>>, NULL, NULL, NULL, NULL, NULL, NULL, 0),
       DictRow(<<"b">>, <<>>, NULL, <<"song">>, NULL, NULL, NULL, NULL, NULL, NULL, 0) >>

Words(rows) == { rows[i].word : i \in 1..Len(rows) }

DistinctWords(rows) ==
    \A i, j \in 1..Len(rows) : i # j => rows[i].word # rows[j].word

RECURSIVE SeqsUpTo(_, _)
SeqsUpTo(S, n) ==
    IF n = 0 THEN { <<>> }
    ELSE SeqsUpTo(S, n - 1) \cup
         { Append(q, x) : q \in { r \in SeqsUpTo(S, n - 1) : Len(r) = n - 1 }, x \in S }

SeedStores ==
    { Renumber(q) :
        q \in { r \in SeqsUpTo({ SeedUniverse[i] : i \in 1..Len(SeedUniverse) }, MaxSeed) :
                  DistinctWords(r) } }

-----------------------------------------------------------------------------
(* Reconciler: integrate_cedict.py *)

Min(a, b) == IF a < b THEN a ELSE b

\* "SELECT * FROM cedict_entries WHERE <column> = ? LIMIT 1" and fetchone():
\* <<row>> for the first row in table order, <<>> for None
select_first(rows, column, text) ==
    LET hits == { i \in 1..Len(rows) : rows[i][column] = text }
    IN  IF hits = {} THEN <<>>
        ELSE << rows[CHOOSE i \in hits : \A j \in hits : i <= j] >>

\* faulty variant: a miss by simplified form is not retried by traditional form
match_one_simplified_only(main_entry, cedict) ==
    LET chinese_text == main_entry.word
        cedict_entry == select_first(cedict, "simplified", chinese_text)
    IN  IF cedict_entry # <<>>
        THEN << [main |-> main_entry, cedict |-> cedict_entry[1]] >>
        ELSE <<>>

\* body of the loop of find_matching_entries for one main_entry
match_one(main_entry, cedict) ==
    LET chinese_text == main_entry.word
        by_simplified == select_first(cedict, "simplified", chinese_text)
        cedict_entry == IF by_simplified = <<>>
                        THEN select_first(cedict, "traditional", chinese_text)
                        ELSE by_simplified
    IN  IF cedict_entry # <<>>
        THEN << [main |-> main_entry, cedict |-> cedict_entry[1]] >>
        ELSE <<>>

RECURSIVE matches_from(_, _, _)
matches_from(main_entries, cedict, i) ==
    IF i > Len(main_entries) THEN <<>>
    ELSE match_one(main_entries[i], cedict) \o matches_from(main_entries, cedict, i + 1)

find_matching_entries(main_entries, cedict) == matches_from(main_entries, cedict, 1)

\* a dict with one key, or the empty dict
Item(cond, key, value) == IF cond THEN key :> value ELSE <<>>

\* the part of enhance_entry_with_cedict that stores the definitions
definitions_update(main_entry, cedict_entry) ==
    IF Truthy(cedict_entry.definitions)
    THEN LET parsed == json_loads(cedict_entry.definitions)
         IN  IF parsed.exc = "none"
             THEN Item(JsonTruthy(parsed.value), "cedict_definitions", cedict_entry.definitions)
             ELSE Item(TRUE, "cedict_definitions", cedict_entry.definitions)
    ELSE <<>>

\* faulty variant: the pronunciation is never taken from the Source entry
enhance_entry_without_pinyin(main_entry, cedict_entry) ==
    Item((~Truthy(main_entry.en_meaning) \/ Strip(main_entry.en_meaning) = <<>>)
           /\ Truthy(cedict_entry.english),
         "en_meaning", cedict_entry.english)
    @@ definitions_update(main_entry, cedict_entry)

enhance_entry_with_cedict(main_entry, cedict_entry) ==
    Item((~Truthy(main_entry.en_meaning) \/ Strip(main_entry.en_meaning) = <<>>)
           /\ Truthy(cedict_entry.english),
         "en_meaning", cedict_entry.english)
    @@ Item((~Truthy(main_entry.pinyin) \/ Strip(main_entry.pinyin) = <<>>)
           /\ Truthy(cedict_entry.pinyin),
         "pinyin", cedict_entry.pinyin)
    @@ Item((~Truthy(main_entry.traditional) \/ Strip(main_entry.traditional) = <<>>)
           /\ cedict_entry.traditional # cedict_entry.simplified,
         "traditional", cedict_entry.traditional)
    @@ Item((~Truthy(main_entry.simplified) \/ Strip(main_entry.simplified) = <<>>)
           /\ cedict_entry.simplified # cedict_entry.traditional,
         "simplified", cedict_entry.simplified)
    @@ definitions_update(main_entry, cedict_entry)

\* "UPDATE dictionary SET <updates> WHERE id = ?"
update_row(rows, id, updates) ==
    [i \in 1..Len(rows) |->
        IF rows[i].id = id
        THEN [f \in DOMAIN rows[i] |->
                 IF f \in DOMAIN updates THEN updates[f] ELSE rows[i][f]]
        ELSE rows[i]]

\* a row of "SELECT * FROM cedict_entries" as the tuple the raw cursor returns;
\* Col(entry, k) is Python's entry[k]
cedict_tuple(c) ==
    <<c.id, c.traditional, c.simplified, c.pinyin, c.english, c.definitions>>

Col(entry, k) == entry[k + 1]

\* ORDER BY LENGTH(simplified), simplified; rows with equal keys in id order
row_before(x, y) ==
    \/ Len(x.simplified) < Len(y.simplified)
    \/ /\ Len(x.simplified) = Len(y.simplified)
       /\ \/ TextLess(x.simplified, y.simplified)
          \/ x.simplified = y.simplified /\ x.id < y.id

RECURSIVE order_rows(_)
order_rows(S) ==
    IF S = {} THEN <<>>
    ELSE LET first == CHOOSE x \in S : \A y \in S \ {x} : row_before(x, y)
         IN  <<first>> \o order_rows(S \ {first})

\* the query of add_new_cedict_entries, LIMIT n
select_cedict(cedict, n) ==
    LET ordered == order_rows({ cedict[i] : i \in 1..Len(cedict) })
    IN  [i \in 1..Min(n, Len(ordered)) |-> cedict_tuple(ordered[i])]

\* faulty variant: the filter looks at one form only
is_new_entry_one_form(entry, existing) ==
    Col(entry, 1) \notin existing

\* the test of the filter loop of add_new_cedict_entries
is_new_entry(entry, existing) ==
    Col(entry, 1) \notin existing /\ Col(entry, 2) \notin existing

\* faulty variant: the size test of the filter loop does not break
at_limit_never(n, lim) == FALSE

\* "if len(new_entries) >= limit: break" in the filter loop
at_limit(n, lim) == n >= lim

\* the filter loop of add_new_cedict_entries, with its break
RECURSIVE filter_new(_, _, _, _)
filter_new(all_cedict_entries, existing, acc, lim) ==
    IF all_cedict_entries = <<>> THEN acc
    ELSE LET entry == Head(all_cedict_entries)
         IN  IF is_new_entry(entry, existing)
             THEN IF at_limit(Len(acc) + 1, lim)
                  THEN Append(acc, entry)
                  ELSE filter_new(Tail(all_cedict_entries), existing, Append(acc, entry), lim)
             ELSE filter_new(Tail(all_cedict_entries), existing, acc, lim)

\* faulty variant: the english text is stored in place of the serialized definitions
inserted_row_english_list(entry, id) ==
    [id |-> id,
     word |-> Col(entry, 1),
     pinyin |-> Col(entry, 3),
     en_meaning |-> Col(entry, 4),
     vi_meaning |-> <<>>,
     traditional |-> IF Col(entry, 2) # Col(entry, 1) THEN Col(entry, 2) ELSE NULL,
     simplified |-> Col(entry, 1),
     cedict_definitions |-> Col(entry, 4),
     source |-> <<"CC-CEDICT">>,
     zhuyin |-> NULL,
     hanviet_reading |-> NULL,
     frequency_rank |-> 0]

\* the row the INSERT of add_new_cedict_entries creates from entry
inserted_row(entry, id) ==
    [id |-> id,
     word |-> Col(entry, 1),
     pinyin |-> Col(entry, 3),
     en_meaning |-> Col(entry, 4),
     vi_meaning |-> <<>>,
     traditional |-> IF Col(entry, 2) # Col(entry, 1) THEN Col(entry, 2) ELSE NULL,
     simplified |-> Col(entry, 1),
     cedict_definitions |-> Col(entry, 5),
     source |-> <<"CC-CEDICT">>,
     zhuyin |-> NULL,
     hanviet_reading |-> NULL,
     frequency_rank |-> 0]

\* "if added_count % 100 == 0" before the commit inside the insert loop
commit_interval == 100

\* faulty variant: the statistic counts the distinct words
count_distinct_words(rows) == Cardinality(Words(rows))

\* "SELECT COUNT(*) FROM dictionary" of get_main_dict_stats
count_entries(rows) == Len(rows)

ReconcilerIdle ==
    /\ pc = "idle"
    /\ limit = 0
    /\ total_before = 0
    /\ matches = <<>>
    /\ match_i = 1
    /\ updated_count = 0
    /\ existing_words = {}
    /\ new_entries = <<>>
    /\ added_count = 0
    /\ store_before = <<>>
    /\ results = <<>>
    /\ insert_log = <<>>
    /\ committed = dictionary

BatchIdle ==
    /\ bpc = "idle"
    /\ batch_size = 0
    /\ max_entries = 0
    /\ entries = <<>>
    /\ total_processed = 0
    /\ enhanced_count = 0
    /\ last_step = "none"
    /\ last_query = 0
    /\ num_queries = 0
    /\ synthesized = {}
    /\ handled_ids = {}

ClientIdle ==
    /\ request = "none"
    /\ api_outcome = [kind |-> "none", content |-> <<>>]
    /\ returned = [exc |-> "none", value |-> <<>>]

\* no command line is running on stores that are in place
CommandIdle ==
    /\ main_db = "integrated"
    /\ cedict_db = "present"
    /\ api_key = TRUE
    /\ command = "none"
    /\ cedict_limit = 0
    /\ ai_limit = 0
    /\ cpc = "shell"
    /\ exit_code = 0
    /\ steps = <<>>
    /\ faults = {}

PinyinIdle ==
    /\ pinyin_syllables = <<>>
    /\ pinyin_input = <<>>
    /\ pinyin_output = <<>>

\* columns of table dictionary that the model keeps, after the migration
DictColumns ==
    {"id", "word", "pinyin", "en_meaning", "vi_meaning", "traditional", "simplified",
     "cedict_definitions", "source", "zhuyin", "hanviet_reading", "frequency_rank"}

\* no method of the integrator has been called on its own; the table has
\* every column
IntegratorIdle ==
    /\ update_faults = {}
    /\ table_columns = DictColumns
    /\ schema_runs = 0

\* the enhancer as its constructor leaves it; no time is modelled
RateIdle ==
    /\ clock = 0
    /\ last_request_time = 0
    /\ call_starts = <<>>
    /\ last_sleep = 0

\* enhance_entry has not been called on its own
EntryIdle ==
    /\ enhanced_entry = <<>>
    /\ entry_updates = <<>>
    /\ entry_returned = "none"

Init ==
    /\ dictionary \in SeedStores
    /\ cedict_entries \in CedictStores
    /\ ReconcilerIdle
    /\ BatchIdle
    /\ ClientIdle
    /\ CommandIdle
    /\ PinyinIdle
    /\ EntryIdle
    /\ IntegratorIdle
    /\ RateIdle

\* integrate_full up to the return of find_matching_entries
IntegrateStart(K) ==
    /\ pc = "idle"
    /\ Len(results) < MaxRuns
    /\ limit' = K
    /\ store_before' = dictionary
    /\ total_before' = count_entries(dictionary)
    /\ matches' = find_matching_entries(dictionary, cedict_entries)
    /\ match_i' = 1
    /\ updated_count' = 0
    /\ pc' = "update"
    /\ committed' = dictionary
    /\ UNCHANGED <<dictionary, cedict_entries, existing_words, new_entries,
                   added_count, results, insert_log, batchVars, clientVars, toolVars>>

\* one iteration of the loop of update_existing_entries
UpdateEntry ==
    /\ pc = "update"
    /\ match_i <= Len(matches)
    /\ LET main_entry == matches[match_i].main
           cedict_entry == matches[match_i].cedict
           updates == enhance_entry_with_cedict(main_entry, cedict_entry)
       IN  IF DOMAIN updates # {}
           THEN /\ dictionary' = update_row(dictionary, main_entry.id, updates)
                /\ updated_count' = updated_count + 1
           ELSE UNCHANGED <<dictionary, updated_count>>
    /\ match_i' = match_i + 1
    /\ UNCHANGED <<cedict_entries, pc, limit, total_before, matches, existing_words,
                   new_entries, added_count, store_before, results, insert_log,
                   committed, batchVars, clientVars, toolVars>>

\* the end of update_existing_entries and add_new_cedict_entries up to its
\* insert loop
SelectNewEntries ==
    /\ pc = "update"
    /\ match_i > Len(matches)
    /\ existing_words' = Words(dictionary)
    /\ new_entries' = filter_new(select_cedict(cedict_entries, limit * 3),
                                 Words(dictionary), <<>>, limit)
    /\ added_count' = 0
    /\ committed' = dictionary
    /\ pc' = "insert"
    /\ UNCHANGED <<dictionary, cedict_entries, limit, total_before, matches, match_i,
                   updated_count, store_before, results, insert_log, batchVars, clientVars, toolVars>>

\* one iteration of the insert loop of add_new_cedict_entries
InsertEntry ==
    /\ pc = "insert"
    /\ new_entries # <<>>
    /\ LET entry == Head(new_entries)
       IN  /\ dictionary' = Append(dictionary, inserted_row(entry, Len(dictionary) + 1))
           /\ insert_log' = Append(insert_log,
                                   [run |-> Len(results) + 1,
                                    cedict_id |-> Col(entry, 0),
                                    words_before |-> existing_words])
    /\ added_count' = added_count + 1
    /\ committed' = IF (added_count + 1) % commit_interval = 0 THEN dictionary' ELSE committed
    /\ new_entries' = Tail(new_entries)
    /\ UNCHANGED <<cedict_entries, pc, limit, total_before, matches, match_i,
                   updated_count, existing_words, store_before, results, batchVars, clientVars, toolVars>>

\* the end of add_new_cedict_entries and the rest of integrate_full
IntegrateFinish ==
    /\ pc = "insert"
    /\ new_entries = <<>>
    /\ results' = Append(results,
                         [limit |-> limit,
                          before |-> store_before,
                          matched_entries |-> Len(matches),
                          updated_entries |-> updated_count,
                          added_entries |-> added_count,
                          total_before |-> total_before,
                          total_after |-> count_entries(dictionary)])
    /\ pc' = "idle"
    /\ committed' = dictionary
    /\ UNCHANGED <<dictionary, cedict_entries, limit, total_before, matches, match_i,
                   updated_count, existing_words, new_entries, added_count,
                   store_before, insert_log, batchVars, clientVars, toolVars>>

Next ==
    \/ \E K \in 0..MaxCap : IntegrateStart(K)
    \/ UpdateEntry
    \/ SelectNewEntries
    \/ InsertEntry
    \/ IntegrateFinish

Spec == Init /\ [][Next]_vars

-----------------------------------------------------------------------------
(* update_existing_entries called on its own, with statements that raise *)

\* Primary Stores for the update phase on its own
UpdateStores ==
    { Renumber(q) :
        q \in { r \in SeqsUpTo({ SeedUniverse[i] : i \in 1..Len(SeedUniverse) }, MaxUpdateRows) :
                  DistinctWords(r) } }

InitUpdate ==
    /\ dictionary \in UpdateStores
    /\ cedict_entries \in CedictStores
    /\ ReconcilerIdle
    /\ BatchIdle
    /\ ClientIdle
    /\ CommandIdle
    /\ PinyinIdle
    /\ EntryIdle
    /\ IntegratorIdle
    /\ RateIdle

\* faulty variant: an exception in the loop body leaves the loop
after_update_fault_abort(i, n) == n + 1

\* "except Exception: ... continue": the loop goes on with the next pair
after_update_fault(i, n) == i + 1

\* matches = find_matching_entries() and update_existing_entries(matches) up
\* to its loop
UpdateStart ==
    /\ pc = "idle"
    /\ store_before' = dictionary
    /\ matches' = find_matching_entries(dictionary, cedict_entries)
    /\ match_i' = 1
    /\ updated_count' = 0
    /\ pc' = "update"
    /\ UNCHANGED <<dictionary, cedict_entries, limit, total_before, existing_words,
                   new_entries, added_count, results, insert_log, committed,
                   batchVars, clientVars, toolVars>>

\* one iteration of the loop of update_existing_entries in which a statement
\* of the try block raises: nothing is written, nothing is counted
UpdateEntryRaises ==
    /\ pc = "update"
    /\ match_i <= Len(matches)
    /\ update_faults' = update_faults \cup {match_i}
    /\ match_i' = after_update_fault(match_i, Len(matches))
    /\ UNCHANGED <<dictionary, cedict_entries, pc, limit, total_before, matches,
                   updated_count, existing_words, new_entries, added_count,
                   store_before, results, insert_log, committed, table_columns,
                   schema_runs, batchVars, clientVars, commandVars, pinyinVars,
                   entryVars, rateVars>>

\* the commit and the return of update_existing_entries
UpdateFinish ==
    /\ pc = "update"
    /\ match_i > Len(matches)
    /\ committed' = dictionary
    /\ pc' = "updated"
    /\ UNCHANGED <<dictionary, cedict_entries, limit, total_before, matches, match_i,
                   updated_count, existing_words, new_entries, added_count,
                   store_before, results, insert_log, batchVars, clientVars, toolVars>>

NextUpdate ==
    \/ UpdateStart
    \/ UpdateEntry
    \/ UpdateEntryRaises
    \/ UpdateFinish

SpecUpdate == InitUpdate /\ [][NextUpdate]_vars

-----------------------------------------------------------------------------
(* add_missing_database_columns called on its own *)

\* keys of required_columns
required_columns == {"traditional", "simplified", "cedict_definitions", "source"}

\* the row with the columns of cols only
Restrict(row, cols) == [f \in cols |-> row[f]]

\* tables whose rows have the columns of cols only
SchemaStores(cols) ==
    { [i \in 1..Len(q) |-> Restrict(q[i], cols)] : q \in SeedStores }

\* faulty variant: the added columns hold the empty text
add_columns_empty(row, cols) ==
    [f \in (DOMAIN row) \cup cols |-> IF f \in DOMAIN row THEN row[f] ELSE <<>>]

\* "ALTER TABLE dictionary ADD COLUMN <column> TEXT" for the columns of cols,
\* seen from one row
add_columns(row, cols) ==
    [f \in (DOMAIN row) \cup cols |-> IF f \in DOMAIN row THEN row[f] ELSE NULL]

\* the table has any of the required columns already
InitSchema ==
    /\ \E present \in SUBSET required_columns :
          /\ table_columns = (DictColumns \ required_columns) \cup present
          /\ dictionary \in SchemaStores((DictColumns \ required_columns) \cup present)
    /\ cedict_entries = <<>>
    /\ ReconcilerIdle
    /\ BatchIdle
    /\ ClientIdle
    /\ CommandIdle
    /\ PinyinIdle
    /\ EntryIdle
    /\ update_faults = {}
    /\ schema_runs = 0
    /\ RateIdle

\* add_missing_database_columns; results keeps the table each call found
AddMissingColumns ==
    /\ schema_runs < MaxSchemaRuns
    /\ LET existing_columns == table_columns
           missing == { column \in required_columns : column \notin existing_columns }
       IN  /\ table_columns' = table_columns \cup missing
           /\ dictionary' = [i \in 1..Len(dictionary) |-> add_columns(dictionary[i], missing)]
    /\ committed' = dictionary'
    /\ schema_runs' = schema_runs + 1
    /\ results' = Append(results, [before |-> dictionary, columns |-> table_columns])
    /\ UNCHANGED <<cedict_entries, pc, limit, total_before, matches, match_i,
                   updated_count, existing_words, new_entries, added_count,
                   store_before, insert_log, update_faults, batchVars, clientVars,
                   commandVars, pinyinVars, entryVars, rateVars>>

NextSchema == AddMissingColumns

SpecSchema == InitSchema /\ [][NextSchema]_vars

\* C28: schema evolution is additive and idempotent: a call of
\* add_missing_database_columns leaves the table with the columns
\* traditional, simplified, cedict_definitions and source; every column that
\* was there is still there and holds in every row what it held; an added
\* column is null in every row; no row is added or removed; and a call after
\* the first changes neither the columns nor the rows.
C28_SchemaAdditiveIdempotent ==
    [][schema_runs' = schema_runs + 1 =>
         /\ {"traditional", "simplified", "cedict_definitions", "source"} \subseteq table_columns'
         /\ table_columns \subseteq table_columns'
         /\ Len(dictionary') = Len(dictionary)
         /\ \A i \in 1..Len(dictionary) :
               /\ DOMAIN dictionary'[i] = table_columns'
               /\ \A f \in table_columns : dictionary'[i][f] = dictionary[i][f]
               /\ \A f \in table_columns' \ table_columns : dictionary'[i][f] = NULL
         /\ schema_runs >= 1 => (table_columns' = table_columns /\ dictionary' = dictionary)]_vars

\* C28 witness: two calls were made on a table with rows that had the column
\* simplified, with a value, and neither cedict_definitions nor source
C28_Witness ==
    /\ schema_runs = 2
    /\ Len(results) = 2
    /\ Len(dictionary) > 0
    /\ "simplified" \in results[1].columns
    /\ "source" \notin results[1].columns
    /\ "cedict_definitions" \notin results[1].columns
    /\ results[1].before[1].simplified # NULL
    /\ dictionary[1].source = NULL
    /\ results[2].before = dictionary

-----------------------------------------------------------------------------
(* Properties of the Reconciler *)

MergeFields == {"en_meaning", "pinyin", "traditional", "simplified", "cedict_definitions"}

\* a field value that is neither null, nor empty, nor blank
Populated(s) == Truthy(s) /\ Strip(s) # <<>>

\* the Primary Store after the n-th finished integrate_full run
StoreAfter(n) ==
    IF n < Len(results) THEN results[n + 1].before
    ELSE IF pc = "idle" THEN dictionary ELSE store_before

\* C1: the update phase is non-destructive: a step of update_existing_entries
\* leaves every populated merge field of every Primary entry as it was.
C1_UpdateNonDestructive ==
    [][pc = "update" =>
         \A i \in 1..Len(dictionary) : \A f \in MergeFields :
             Populated(dictionary[i][f]) => dictionary'[i][f] = dictionary[i][f]]_vars

PatchOf(k) == enhance_entry_with_cedict(matches[k].main, matches[k].cedict)

\* the row old with the fields of patch replaced
Patched(old, patch) ==
    [f \in DOMAIN old |-> IF f \in DOMAIN patch THEN patch[f] ELSE old[f]]

\* pairs the loop of update_existing_entries has gone through
PairsDone == 1..(match_i - 1)

\* C23: the update phase succeeds per record: of the matched pairs the loop
\* has gone through, the entry of a pair whose merge raised is as it was
\* before the call, the entry of every other pair, before or after a failing
\* one, carries its patch, entries without a pair are untouched, the count is
\* the number of pairs that did not fail and had a non-empty patch, and the
\* loop goes through every pair before the call returns.
C23_SucceedsPerRecord ==
    pc \in {"update", "updated"} =>
        /\ \A k \in PairsDone \cap 1..Len(matches) :
              LET id == matches[k].main.id
              IN  IF k \in update_faults
                  THEN dictionary[id] = store_before[id]
                  ELSE dictionary[id] = Patched(store_before[id], PatchOf(k))
        /\ \A i \in 1..Len(store_before) :
              (\A k \in PairsDone \cap 1..Len(matches) : matches[k].main.id # i) =>
                  dictionary[i] = store_before[i]
        /\ Len(dictionary) = Len(store_before)
        /\ updated_count =
              Cardinality({ k \in PairsDone \cap 1..Len(matches) :
                              k \notin update_faults /\ DOMAIN PatchOf(k) # {} })
        /\ pc = "updated" => match_i = Len(matches) + 1

\* C23 witness: the call has returned, the merge of the second of three
\* pairs failed, and the first and the third entry were changed and counted
C23_Witness ==
    /\ pc = "updated"
    /\ Len(matches) = 3
    /\ update_faults = {2}
    /\ DOMAIN PatchOf(2) # {}
    /\ dictionary[matches[1].main.id] # store_before[matches[1].main.id]
    /\ dictionary[matches[3].main.id] # store_before[matches[3].main.id]
    /\ updated_count = 2

\* Source entries one of whose forms, named by column, is the text
FormHits(column, text) ==
    { i \in 1..Len(cedict_entries) : cedict_entries[i][column] = text }

\* pairs of matches bound to the Primary entry with this id
PairsOf(id) == { k \in 1..Len(matches) : matches[k].main.id = id }

\* C26: the match phase binds at most one Source entry per Primary entry:
\* after find_matching_entries every Primary entry has at most one pair; an
\* entry whose word is the simplified form of a Source entry is bound to the
\* first such Source entry, otherwise an entry whose word is the traditional
\* form of a Source entry is bound to the first of those, and an entry whose
\* word is no form of any Source entry has no pair; the step that matches
\* changes neither store.
C26_MatchBindsOne ==
    /\ [](pc \in {"update", "updated"} =>
            /\ \A k \in 1..Len(matches) :
                  /\ matches[k].main.id \in 1..Len(store_before)
                  /\ matches[k].main = store_before[matches[k].main.id]
                  /\ matches[k].cedict.id \in 1..Len(cedict_entries)
                  /\ matches[k].cedict = cedict_entries[matches[k].cedict.id]
            /\ \A i \in 1..Len(store_before) :
                  LET word == store_before[i].word
                      simp == FormHits("simplified", word)
                      trad == FormHits("traditional", word)
                  IN  /\ Cardinality(PairsOf(i)) <= 1
                      /\ simp # {} =>
                            \E k \in PairsOf(i) :
                                /\ matches[k].cedict.simplified = word
                                /\ \A j \in simp : matches[k].cedict.id <= j
                      /\ simp = {} /\ trad # {} =>
                            \E k \in PairsOf(i) :
                                /\ matches[k].cedict.traditional = word
                                /\ \A j \in trad : matches[k].cedict.id <= j
                      /\ simp = {} /\ trad = {} => PairsOf(i) = {})
    /\ [][pc = "idle" /\ pc' = "update" =>
            dictionary' = dictionary /\ cedict_entries' = cedict_entries]_vars

\* C26 witness: right after matching, the word of one Primary entry is the
\* simplified form of two Source entries, the word of another is a
\* traditional form only, and a third entry has no pair
C26_Witness ==
    /\ pc = "update"
    /\ match_i = 1
    /\ \E i \in 1..Len(store_before) :
          Cardinality(FormHits("simplified", store_before[i].word)) = 2
    /\ \E i \in 1..Len(store_before) :
          /\ FormHits("simplified", store_before[i].word) = {}
          /\ FormHits("traditional", store_before[i].word) # {}
    /\ \E i \in 1..Len(store_before) : PairsOf(i) = {}

\* the row of the Primary Store made by the k-th logged insertion (rows are
\* only appended)
InsertedRow(k) == dictionary[Len(dictionary) - Len(insert_log) + k]

\* the Source entry the k-th logged insertion was made from
InsertedFrom(k) == cedict_entries[insert_log[k].cedict_id]

\* no update phase has run since the k-th logged insertion
FreshInsert(k) ==
    \/ insert_log[k].run = Len(results) + 1
    \/ insert_log[k].run = Len(results) /\ pc = "idle"

\* C27: contents of an inserted entry: every entry inserted by
\* add_new_cedict_entries has an empty vi_meaning and the source 'CC-CEDICT',
\* and, until a later update phase runs, cedict_definitions equal to the
\* serialized definitions of the Source entry it was made from.
C27_InsertedContents ==
    \A k \in 1..Len(insert_log) :
        /\ InsertedRow(k).vi_meaning = <<>>
        /\ InsertedRow(k).source = <<"CC-CEDICT">>
        /\ FreshInsert(k) => InsertedRow(k).cedict_definitions = InsertedFrom(k).definitions

\* C27 witness: the second run has inserted an entry after the first run
\* inserted one, from Source entries with different definitions
C27_Witness ==
    /\ pc = "insert"
    /\ Len(results) = 1
    /\ \E j, k \in 1..Len(insert_log) :
          /\ insert_log[j].run = 1
          /\ insert_log[k].run = 2
          /\ InsertedFrom(j).definitions # InsertedFrom(k).definitions
          /\ InsertedRow(k).cedict_definitions # InsertedRow(j).cedict_definitions

\* C29: forms of an inserted entry: the entry inserted from Source entry S
\* has word = S.simplified, simplified = S.simplified, traditional =
\* S.traditional when it differs from S.simplified and null otherwise,
\* pinyin = S.pinyin and en_meaning = S.english.
C29_InsertedForms ==
    \A k \in 1..Len(insert_log) :
        FreshInsert(k) =>
            /\ InsertedRow(k).word = InsertedFrom(k).simplified
            /\ InsertedRow(k).simplified = InsertedFrom(k).simplified
            /\ InsertedRow(k).traditional =
                  (IF InsertedFrom(k).traditional # InsertedFrom(k).simplified
                   THEN InsertedFrom(k).traditional ELSE NULL)
            /\ InsertedRow(k).pinyin = InsertedFrom(k).pinyin
            /\ InsertedRow(k).en_meaning = InsertedFrom(k).english

\* C4: at most one record per lexical key: no two Primary Store entries have
\* the same word (the Primary Store starts with pairwise distinct words).
C4_OneRecordPerWord == DistinctWords(dictionary)

\* C5: idempotent reconciliation: a second integrate_full(K) right after the
\* first reports zero matched, zero updated and zero added entries.
C5_SecondRunCountsZero ==
    (Len(results) >= 2 /\ results[2].limit = results[1].limit) =>
        /\ results[2].matched_entries = 0
        /\ results[2].updated_entries = 0
        /\ results[2].added_entries = 0

\* C11: the Reconciler never removes a record: every entry (id and word) of
\* the Primary Store before an integrate_full run is in the store during and
\* after the run, and the run reports total_after = total_before + added_entries.
C11_NeverRemoves ==
    /\ \A n \in 1..Len(results) :
          /\ \A i \in 1..Len(results[n].before) :
                \E j \in 1..Len(StoreAfter(n)) :
                    /\ StoreAfter(n)[j].id = results[n].before[i].id
                    /\ StoreAfter(n)[j].word = results[n].before[i].word
          /\ results[n].total_after = results[n].total_before + results[n].added_entries
    /\ pc # "idle" =>
          \A i \in 1..Len(store_before) :
              \E j \in 1..Len(dictionary) :
                  /\ dictionary[j].id = store_before[i].id
                  /\ dictionary[j].word = store_before[i].word

\* C11 witness: a run over a non-empty Primary Store has updated an entry and
\* inserted two entries with the same word
C11_Witness ==
    /\ Len(results) >= 1
    /\ Len(results[1].before) >= 1
    /\ results[1].updated_entries >= 1
    /\ results[1].added_entries = 2
    /\ ~DistinctWords(StoreAfter(1))

\* the rows of the Primary Store the n-th run inserted
InsertedBy(n) == { k \in 1..Len(insert_log) : insert_log[k].run = n }

\* C12: insert cap: a run of add_new_cedict_entries(K) inserts at most K rows
\* and returns the number of rows it inserted.
C12_InsertCap ==
    /\ \A n \in 1..Len(results) :
          /\ results[n].added_entries <= results[n].limit
          /\ results[n].added_entries = Cardinality(InsertedBy(n))
          /\ Len(StoreAfter(n)) = Len(results[n].before) + results[n].added_entries
    /\ pc = "insert" =>
          /\ added_count + Len(new_entries) <= limit
          /\ added_count = Cardinality(InsertedBy(Len(results) + 1))
          /\ Len(dictionary) = Len(store_before) + added_count

\* C12 witness: a run with cap 1 inserted one row although two Source entries
\* had no form among the words of the Primary Store
C12_Witness ==
    /\ Len(results) >= 1
    /\ results[1].limit = 1
    /\ results[1].added_entries = 1
    /\ Cardinality({ i \in 1..Len(cedict_entries) :
                       /\ cedict_entries[i].simplified \notin Words(results[1].before)
                       /\ cedict_entries[i].traditional \notin Words(results[1].before) }) >= 2

\* C19: per-record commit: at every point of the update phase, the insert
\* phase and an enhance_batch run, the patch or insert of every record whose
\* processing is finished is committed, so the committed Primary Store is the
\* store the run has written.
C19_PerRecordCommit == committed = dictionary

CompareFields ==
    {"word", "pinyin", "en_meaning", "vi_meaning", "traditional", "simplified",
     "cedict_definitions", "source"}

\* C17: a second integrate_full(K) right after the first leaves the
\* non-timestamp fields of every entry of the Primary Store as the first run
\* left them.
C17_RerunKeepsStore ==
    (Len(results) >= 2 /\ results[2].limit = results[1].limit) =>
        \A i \in 1..Len(StoreAfter(1)) : \A f \in CompareFields :
            StoreAfter(2)[i][f] = StoreAfter(1)[i][f]

\* the Source entries neither of whose forms is in words, in the order of the
\* insert query
Survivors(words) ==
    order_rows({ cedict_entries[i] : i \in { j \in 1..Len(cedict_entries) :
                     /\ cedict_entries[j].simplified \notin words
                     /\ cedict_entries[j].traditional \notin words } })

\* ids of the Source entries the n-th run inserted, in insertion order
InsertedIds(n) ==
    LET log == SelectSeq(insert_log, LAMBDA e : e.run = n)
    IN  [k \in 1..Len(log) |-> log[k].cedict_id]

\* C18: the insert phase selects from all survivors: a run with cap K inserts
\* exactly the first min(K, S) of the S Source entries with no form among the
\* words of the Primary Store, in the order of the insert query.
C18_InsertsFirstSurvivors ==
    \A n \in 1..Len(results) :
        LET survivors == Survivors(Words(results[n].before))
            count == Min(results[n].limit, Len(survivors))
        IN  InsertedIds(n) = [k \in 1..count |-> survivors[k].id]

\* the scenario of C10 at the start of the n-th run: one Primary entry with
\* empty pinyin and en_meaning whose word is the simplified form of the only
\* Source entry
MatchAndFillCase(n) ==
    /\ Len(results[n].before) = 1
    /\ Len(cedict_entries) = 1
    /\ ~Truthy(results[n].before[1].pinyin)
    /\ ~Truthy(results[n].before[1].en_meaning)
    /\ results[n].before[1].word = cedict_entries[1].simplified

\* C10: match-and-fill: in that scenario integrate_full sets pinyin and
\* en_meaning from the Source entry, leaves vi_meaning as it was and reports
\* matched_entries = 1, updated_entries = 1, added_entries = 0.
C10_MatchAndFill ==
    \A n \in 1..Len(results) :
        MatchAndFillCase(n) =>
            /\ Len(StoreAfter(n)) = 1
            /\ StoreAfter(n)[1].pinyin = cedict_entries[1].pinyin
            /\ StoreAfter(n)[1].en_meaning = cedict_entries[1].english
            /\ StoreAfter(n)[1].vi_meaning = results[n].before[1].vi_meaning
            /\ results[n].matched_entries = 1
            /\ results[n].updated_entries = 1
            /\ results[n].added_entries = 0

\* C10 witness: the scenario with a Source entry whose two forms differ and a
\* positive cap, after the run
C10_Witness ==
    /\ Len(results) >= 1
    /\ MatchAndFillCase(1)
    /\ cedict_entries[1].traditional # cedict_entries[1].simplified
    /\ results[1].limit > 0
    /\ results[1].before[1].vi_meaning # <<>>
    /\ StoreAfter(1)[1].pinyin = cedict_entries[1].pinyin

-----------------------------------------------------------------------------
(* Enrichment Scheduler: deepseek_enhancer.py *)

\* rows of the Primary Store before enhance_batch
EnhanceUniverse ==
    << DictRow(<<"a">>, <<"xing">>, <<"walk">>, <<"di">>, NULL, NULL, NULL, NULL,
               <<"zhuyin0">>, NULL, 1),
       DictRow(<<"b">>, NULL, NULL, <<>>, NULL, NULL, NULL, NULL, NULL, NULL, 2),
       DictRow(<<"c">>, <<"fa">>, <<"send">>, <<"gui">>, NULL, NULL, NULL, NULL,
               <<"zhuyin0">>, <<"hanviet0">>, 2),
       DictRow(<<"b", "a">>, <<"ba">>, NULL, <<"song">>, NULL, NULL, NULL, NULL,
               NULL, <<"hanviet0">>, 1) >>

EnhanceStores ==
    { Renumber(Pick(EnhanceUniverse, S, 1)) :
        S \in { T \in SUBSET (1..Len(EnhanceUniverse)) : Cardinality(T) <= MaxRows } }

\* faulty variant: the WHERE clause does not look at hanviet_reading
needs_enhancement_two_fields(row) ==
    \/ row.zhuyin = NULL \/ row.zhuyin = <<>>
    \/ row.vi_meaning = NULL \/ row.vi_meaning = <<>>

\* WHERE clause of find_entries_needing_enhancement
needs_enhancement(row) ==
    \/ row.zhuyin = NULL \/ row.zhuyin = <<>>
    \/ row.vi_meaning = NULL \/ row.vi_meaning = <<>>
    \/ row.hanviet_reading = NULL \/ row.hanviet_reading = <<>>

\* ORDER BY frequency_rank DESC, id ASC (a NULL rank, 0 here, comes last)
candidate_before(x, y) ==
    \/ x.frequency_rank > y.frequency_rank
    \/ x.frequency_rank = y.frequency_rank /\ x.id < y.id

RECURSIVE order_candidates(_)
order_candidates(S) ==
    IF S = {} THEN <<>>
    ELSE LET first == CHOOSE x \in S : \A y \in S \ {x} : candidate_before(x, y)
         IN  <<first>> \o order_candidates(S \ {first})

Candidates(rows) ==
    order_candidates({ rows[i] : i \in { j \in 1..Len(rows) : needs_enhancement(rows[j]) } })

\* faulty variant: the query has no LIMIT
find_entries_without_limit(rows, lim) == Candidates(rows)

find_entries_needing_enhancement(rows, lim) ==
    SubSeq(Candidates(rows), 1, Min(lim, Len(Candidates(rows))))

\* results enhance_missing_pronunciation can return: a dict with any of the
\* three keys enhance_entry reads
PronunciationValue(key) ==
    CASE key = "zhuyin" -> <<"zhuyin1">>
      [] key = "hanviet" -> <<"hanviet1">>
      [] OTHER -> <<"pinyin1">>

PronunciationResults ==
    { [key \in K |-> PronunciationValue(key)] : K \in SUBSET {"zhuyin", "hanviet", "pinyin_tones"} }

\* results of enhance_missing_vietnamese, enhance_missing_examples and
\* enhance_missing_grammar_info
VietnameseResults == { <<>>, <<"viet1">> }

ExamplesResults == { <<"[", "]">>, <<"[", "{", "m", "}", "]">> }

GrammarResults == { <<"{", "}">>, <<"{", "m", "}">> }

\* dict.get(key) of a pronunciation result
PronunciationGet(data, key) == IF key \in DOMAIN data THEN data[key] ELSE NULL

\* the requests enhance_entry sends for entry, in the order it sends them;
\* entry is a row of table dictionary, entry.get of a key it lacks is None
requests_issued(entry) ==
    (IF ~Truthy(entry.zhuyin) \/ ~Truthy(entry.hanviet_reading)
     THEN <<"pronunciation">> ELSE <<>>)
    \o (IF ~Truthy(entry.vi_meaning) THEN <<"vietnamese">> ELSE <<>>)
    \o (IF "examples" \notin DOMAIN entry \/ ~Truthy(entry["examples"])
        THEN <<"examples">> ELSE <<>>)
    \o (IF "grammar_info" \notin DOMAIN entry \/ ~Truthy(entry["grammar_info"])
        THEN <<"grammar">> ELSE <<>>)

\* the updates enhance_entry assembles from the results of the four requests
enhance_updates(entry, pronunciation_data, vietnamese_meaning, examples, grammar_info) ==
    LET pronounce == ~Truthy(entry.zhuyin) \/ ~Truthy(entry.hanviet_reading)
    IN  Item(pronounce /\ Truthy(PronunciationGet(pronunciation_data, "zhuyin")),
             "zhuyin", PronunciationGet(pronunciation_data, "zhuyin"))
        @@ Item(pronounce /\ Truthy(PronunciationGet(pronunciation_data, "hanviet")),
                "hanviet_reading", PronunciationGet(pronunciation_data, "hanviet"))
        @@ Item(pronounce /\ Truthy(PronunciationGet(pronunciation_data, "pinyin_tones"))
                  /\ ~Truthy(entry.pinyin),
                "pinyin", PronunciationGet(pronunciation_data, "pinyin_tones"))
        @@ Item(~Truthy(entry.vi_meaning) /\ Truthy(vietnamese_meaning),
                "vi_meaning", vietnamese_meaning)
        @@ Item("examples" \notin DOMAIN entry /\ JsonTruthy(examples),
                "examples", examples)
        @@ Item("grammar_info" \notin DOMAIN entry /\ JsonTruthy(grammar_info),
                "grammar_info", grammar_info)

\* the UPDATE of _update_database_entry succeeds when every field of updates
\* is a column of table dictionary
update_succeeds(rows, updates) ==
    \A i \in 1..Len(rows) : DOMAIN updates \subseteq DOMAIN rows[i]

\* _update_database_entry: the table afterwards
update_database_entry(rows, entry_id, updates) ==
    IF update_succeeds(rows, updates) THEN update_row(rows, entry_id, updates) ELSE rows

\* the value enhance_entry returns
enhance_entry_returns(rows, updates) ==
    DOMAIN updates # {} /\ update_succeeds(rows, updates)

\* faulty variant: the for loop never leaves early
for_break_never(processed, budget) == FALSE

\* "if total_processed >= max_entries: break" in the for loop
for_break(processed, budget) == processed >= budget

\* faulty variant: the except branch does not count the entry
processed_after_exception_same(processed) == processed

\* total_processed after the except branch of enhance_batch
processed_after_exception(processed) == processed + 1

InitBatch ==
    /\ dictionary \in EnhanceStores
    /\ cedict_entries = <<>>
    /\ ReconcilerIdle
    /\ BatchIdle
    /\ ClientIdle
    /\ CommandIdle
    /\ PinyinIdle
    /\ EntryIdle
    /\ IntegratorIdle
    /\ RateIdle

\* enhance_batch up to its while loop
EnhanceBatchStart(size, budget) ==
    /\ bpc = "idle"
    /\ batch_size' = size
    /\ max_entries' = budget
    /\ enhanced_count' = 0
    /\ total_processed' = 0
    /\ bpc' = "while"
    /\ last_step' = "start"
    /\ handled_ids' = {}
    /\ UNCHANGED <<reconcilerVars, clientVars, toolVars, entries, last_query, num_queries, synthesized>>

\* the while test holds and the selection query returns rows
SelectBatch ==
    /\ bpc = "while"
    /\ total_processed < max_entries
    /\ find_entries_needing_enhancement(dictionary, batch_size) # <<>>
    /\ entries' = find_entries_needing_enhancement(dictionary, batch_size)
    /\ last_query' = Len(entries')
    /\ num_queries' = Min(num_queries + 1, max_entries + 1)
    /\ bpc' = "for"
    /\ last_step' = "select"
    /\ UNCHANGED <<reconcilerVars, clientVars, toolVars, batch_size, max_entries, total_processed, enhanced_count,
                   synthesized, handled_ids>>

\* the while test holds and the selection query returns nothing: break, return
NoMoreEntries ==
    /\ bpc = "while"
    /\ total_processed < max_entries
    /\ find_entries_needing_enhancement(dictionary, batch_size) = <<>>
    /\ entries' = <<>>
    /\ last_query' = 0
    /\ num_queries' = Min(num_queries + 1, max_entries + 1)
    /\ bpc' = "done"
    /\ last_step' = "empty"
    /\ UNCHANGED <<reconcilerVars, clientVars, toolVars, batch_size, max_entries, total_processed, enhanced_count,
                   synthesized, handled_ids>>

\* the while test fails: return
BudgetReached ==
    /\ bpc = "while"
    /\ ~(total_processed < max_entries)
    /\ bpc' = "done"
    /\ last_step' = "budget"
    /\ UNCHANGED <<reconcilerVars, clientVars, toolVars, batch_size, max_entries, entries, total_processed,
                   enhanced_count, last_query, num_queries, synthesized, handled_ids>>

\* one iteration of the for loop in which enhance_entry returns
EnhanceEntry ==
    /\ bpc = "for"
    /\ entries # <<>>
    /\ ~for_break(total_processed, max_entries)
    /\ \E pronunciation_data \in PronunciationResults, vietnamese_meaning \in VietnameseResults,
          examples \in ExamplesResults, grammar_info \in GrammarResults :
          LET entry == Head(entries)
              updates == enhance_updates(entry, pronunciation_data, vietnamese_meaning,
                                         examples, grammar_info)
          IN  /\ dictionary' = IF DOMAIN updates # {}
                               THEN update_database_entry(dictionary, entry.id, updates)
                               ELSE dictionary
              /\ synthesized' = synthesized
                    \cup (IF JsonTruthy(examples) THEN {<<entry.id, "examples">>} ELSE {})
                    \cup (IF JsonTruthy(grammar_info) THEN {<<entry.id, "grammar">>} ELSE {})
              /\ committed' = IF DOMAIN updates # {} /\ update_succeeds(dictionary, updates)
                              THEN dictionary'
                              ELSE committed
              /\ enhanced_count' = IF enhance_entry_returns(dictionary, updates)
                                   THEN enhanced_count + 1
                                   ELSE enhanced_count
    /\ total_processed' = total_processed + 1
    /\ handled_ids' = handled_ids \cup {Head(entries).id}
    /\ entries' = Tail(entries)
    /\ last_step' = "enhance"
    /\ UNCHANGED <<cedict_entries, pc, limit, total_before, matches, match_i,
                   updated_count, existing_words, new_entries, added_count,
                   store_before, results, insert_log, clientVars, toolVars,
                   bpc, batch_size, max_entries, last_query, num_queries>>

\* one iteration of the for loop in which enhance_entry raises
EnhanceEntryRaises ==
    /\ bpc = "for"
    /\ entries # <<>>
    /\ ~for_break(total_processed, max_entries)
    /\ total_processed' = processed_after_exception(total_processed)
    /\ handled_ids' = handled_ids \cup {Head(entries).id}
    /\ entries' = Tail(entries)
    /\ last_step' = "except"
    /\ UNCHANGED <<reconcilerVars, clientVars, toolVars, bpc, batch_size, max_entries, enhanced_count,
                   last_query, num_queries, synthesized>>

\* the for loop leaves early
ForBreak ==
    /\ bpc = "for"
    /\ entries # <<>>
    /\ for_break(total_processed, max_entries)
    /\ bpc' = "while"
    /\ last_step' = "break"
    /\ UNCHANGED <<reconcilerVars, clientVars, toolVars, batch_size, max_entries, entries, total_processed,
                   enhanced_count, last_query, num_queries, synthesized, handled_ids>>

\* the for loop has walked the whole batch
ForEnd ==
    /\ bpc = "for"
    /\ entries = <<>>
    /\ bpc' = "while"
    /\ last_step' = "end"
    /\ UNCHANGED <<reconcilerVars, clientVars, toolVars, batch_size, max_entries, entries, total_processed,
                   enhanced_count, last_query, num_queries, synthesized, handled_ids>>

NextBatch ==
    \/ \E size \in 1..MaxBatch, budget \in 0..MaxBudget : EnhanceBatchStart(size, budget)
    \/ SelectBatch
    \/ NoMoreEntries
    \/ BudgetReached
    \/ EnhanceEntry
    \/ EnhanceEntryRaises
    \/ ForBreak
    \/ ForEnd

SpecBatch == InitBatch /\ [][NextBatch]_vars

\* enhance_batch is one sequential call: it takes its next step as long as it
\* has one
SpecBatchFair == InitBatch /\ [][NextBatch]_vars /\ WF_vars(NextBatch)

\* enhance_entry called on its own
InitEntry ==
    /\ dictionary \in EnhanceStores
    /\ cedict_entries = <<>>
    /\ ReconcilerIdle
    /\ BatchIdle
    /\ ClientIdle
    /\ CommandIdle
    /\ PinyinIdle
    /\ EntryIdle
    /\ IntegratorIdle
    /\ RateIdle

\* one call enhance_entry(entry) that returns, for a row entry of the table
EnhanceOne(i) ==
    /\ entry_returned = "none"
    /\ i \in 1..Len(dictionary)
    /\ \E pronunciation_data \in PronunciationResults, vietnamese_meaning \in VietnameseResults,
          examples \in ExamplesResults, grammar_info \in GrammarResults :
          LET entry == dictionary[i]
              updates == enhance_updates(entry, pronunciation_data, vietnamese_meaning,
                                         examples, grammar_info)
          IN  /\ enhanced_entry' = entry
              /\ entry_updates' = updates
              /\ dictionary' = IF DOMAIN updates # {}
                               THEN update_database_entry(dictionary, entry.id, updates)
                               ELSE dictionary
              /\ committed' = IF DOMAIN updates # {} /\ update_succeeds(dictionary, updates)
                              THEN dictionary'
                              ELSE committed
              /\ entry_returned' = IF enhance_entry_returns(dictionary, updates) THEN "True" ELSE "False"
    /\ UNCHANGED <<cedict_entries, pc, limit, total_before, matches, match_i,
                   updated_count, existing_words, new_entries, added_count,
                   store_before, results, insert_log, batchVars, clientVars,
                   commandVars, pinyinVars, integratorVars, rateVars>>

NextEntry == \E i \in 1..MaxRows : EnhanceOne(i)

SpecEntry == InitEntry /\ [][NextEntry]_vars

-----------------------------------------------------------------------------
(* _rate_limit: the calls of the Enrichment Client on one enhancer, over time *)

\* self.request_delay, in seconds
request_delay == 1

\* request_delay in ticks
delay_ticks == request_delay * TicksPerSecond

\* faulty variant: the call never waits
sleep_never(time_since_last) == 0

\* the duration _rate_limit passes to time.sleep, 0 when it does not sleep
sleep_duration(time_since_last) ==
    IF time_since_last < delay_ticks THEN delay_ticks - time_since_last ELSE 0

\* time.time() counts from 1970: the clock is past request_delay when the
\* enhancer is made, and last_request_time is 0
InitRate ==
    /\ dictionary = <<>>
    /\ cedict_entries = <<>>
    /\ ReconcilerIdle
    /\ BatchIdle
    /\ ClientIdle
    /\ CommandIdle
    /\ PinyinIdle
    /\ EntryIdle
    /\ IntegratorIdle
    /\ clock \in delay_ticks..(delay_ticks + TicksPerSecond)
    /\ last_request_time = 0
    /\ call_starts = <<>>
    /\ last_sleep = 0

\* time passes between two calls (the request itself, the caller's work)
Elapse ==
    /\ clock < MaxClock
    /\ clock' = clock + 1
    /\ UNCHANGED <<reconcilerVars, batchVars, clientVars, commandVars, pinyinVars,
                   entryVars, integratorVars, last_request_time, call_starts, last_sleep>>

\* _rate_limit, called at the start of _call_deepseek_api; the request
\* starts when it returns
RateLimit(oversleep) ==
    /\ Len(call_starts) < MaxCalls
    /\ clock <= MaxClock
    /\ LET current_time == clock
           time_since_last == current_time - last_request_time
           slept == sleep_duration(time_since_last)
       IN  /\ last_sleep' = slept
           /\ clock' = current_time + slept + oversleep
           /\ last_request_time' = current_time + slept + oversleep
           /\ call_starts' = Append(call_starts, current_time + slept + oversleep)
    /\ UNCHANGED <<reconcilerVars, batchVars, clientVars, commandVars, pinyinVars,
                   entryVars, integratorVars>>

NextRate ==
    \/ Elapse
    \/ \E oversleep \in 0..MaxOversleep : RateLimit(oversleep)

SpecRate == InitRate /\ [][NextRate]_vars

\* C24: rate limiting: the start times of two consecutive API calls on one
\* enhancer are at least request_delay apart, and the wait a call asks for
\* is never longer than request_delay (the clock read by time.time() does
\* not go back).
C24_RateLimit ==
    /\ \A k \in 1..(Len(call_starts) - 1) :
          call_starts[k + 1] - call_starts[k] >= request_delay * TicksPerSecond
    /\ last_sleep >= 0
    /\ last_sleep <= request_delay * TicksPerSecond

\* C24 witness: three calls, the second right after the first so that it
\* waited, the last one after part of the delay had passed so that it
\* waited for the rest
C24_Witness ==
    /\ Len(call_starts) = 3
    /\ call_starts[2] - call_starts[1] = request_delay * TicksPerSecond
    /\ last_sleep > 0
    /\ last_sleep < request_delay * TicksPerSecond

-----------------------------------------------------------------------------
(* Properties of the Enrichment Scheduler *)

EnrichedFields == {"zhuyin", "hanviet_reading", "pinyin", "vi_meaning"}

\* C2: the merge of enhance_entry is non-destructive: no step of the
\* scheduler changes zhuyin, hanviet_reading, pinyin or vi_meaning of an entry
\* in which that field was non-empty.
C2_EnrichmentNonDestructive ==
    [][\A i \in 1..Len(dictionary) : \A f \in EnrichedFields :
          Truthy(dictionary[i][f]) => dictionary'[i][f] = dictionary[i][f]]_vars

\* C6: batch termination: every enhance_batch run returns.
C6_BatchTerminates == <>(bpc = "done")

\* C6 witness: the run has returned with the budget used up while candidates
\* remain, more of them than max_entries
C6_Witness ==
    /\ bpc = "done"
    /\ max_entries > 0
    /\ total_processed = max_entries
    /\ Len(Candidates(dictionary)) > max_entries
    /\ enhanced_count = 0

\* C7: budget bound: enhanced_count <= total_processed <= max_entries
\* throughout a run, so the value returned is at most max_entries, and
\* enhance_entry is only called while total_processed is below max_entries.
C7_BudgetBound ==
    /\ [](enhanced_count <= total_processed /\ total_processed <= max_entries)
    /\ [][last_step' \in {"enhance", "except"} => total_processed < max_entries]_vars

\* C7 witness: the budget is reached inside a batch that still has rows
C7_Witness ==
    /\ bpc = "for"
    /\ entries # <<>>
    /\ total_processed = max_entries
    /\ enhanced_count > 0
    /\ enhanced_count < total_processed

\* C8: stop conditions: a finished run saw an empty selection or processed
\* exactly max_entries entries; every selection returns at most batch_size
\* rows; the selections together cover the processed entries, so a budget
\* above batch_size that is used up takes more than one selection.
C8_StopConditions ==
    /\ bpc = "done" => (last_step = "empty" \/ total_processed = max_entries)
    /\ last_query <= batch_size
    /\ Len(entries) <= batch_size
    /\ total_processed <= num_queries * batch_size
    /\ (bpc = "done" /\ last_step # "empty" /\ max_entries > batch_size) => num_queries > 1

\* C8 witness: 3 candidates that stay incomplete, batch_size 2, max_entries 3:
\* the run ends on the budget after two selections
C8_Witness ==
    /\ bpc = "done"
    /\ last_step = "budget"
    /\ batch_size = 2
    /\ max_entries = 3
    /\ total_processed = 3
    /\ num_queries = 2
    /\ Len(Candidates(dictionary)) >= 3

\* the request kinds in a sequence of requests
KindsOf(kinds) == { kinds[k] : k \in 1..Len(kinds) }

\* C20: requests are gated and issued once: an enhance_entry call (one that
\* returns, or one that raises after some of its requests) sends each of the
\* four requests at most once; the pronunciation request only when
\* zhuyin or hanviet_reading of the entry is empty, the translation request
\* only when vi_meaning is empty, and the examples and grammar requests only
\* for an entry for which no earlier call obtained examples / grammar info.
C20_RequestsGatedOnce ==
    [][last_step' \in {"enhance", "except"} =>
         LET entry == Head(entries)
             kinds == requests_issued(entry)
         IN  /\ Len(kinds) <= 4
             /\ \A j, k \in 1..Len(kinds) : j # k => kinds[j] # kinds[k]
             /\ "pronunciation" \in KindsOf(kinds) =>
                    (~Truthy(entry.zhuyin) \/ ~Truthy(entry.hanviet_reading))
             /\ "vietnamese" \in KindsOf(kinds) => ~Truthy(entry.vi_meaning)
             /\ "examples" \in KindsOf(kinds) => <<entry.id, "examples">> \notin synthesized
             /\ "grammar" \in KindsOf(kinds) => <<entry.id, "grammar">> \notin synthesized]_vars

\* C22: per-entry faults do not stop the enrichment loop: every handled entry,
\* whether enhance_entry returned True, returned False or raised, adds exactly
\* one to total_processed; an entry for which it raised is not counted as
\* enhanced, changes nothing in the Primary Store, and the for loop goes on
\* with the rest of the batch.
C22_FaultsDoNotStopLoop ==
    [][last_step' \in {"enhance", "except"} =>
         /\ total_processed' = total_processed + 1
         /\ entries' = Tail(entries)
         /\ bpc' = "for"
         /\ last_step' = "except" =>
                (enhanced_count' = enhanced_count /\ dictionary' = dictionary)]_vars

\* C22 witness: enhance_entry raised for an entry, which was counted as
\* processed, and the batch has a next entry with budget left for it
C22_Witness ==
    /\ last_step = "except"
    /\ bpc = "for"
    /\ entries # <<>>
    /\ total_processed > 0
    /\ total_processed < max_entries

\* zhuyin, vi_meaning or hanviet_reading of the row is empty or null
MissingField(row) ==
    ~Truthy(row.zhuyin) \/ ~Truthy(row.vi_meaning) \/ ~Truthy(row.hanviet_reading)

\* x comes before y by descending frequency_rank, then ascending id
RankedBefore(x, y) ==
    \/ x.frequency_rank > y.frequency_rank
    \/ x.frequency_rank = y.frequency_rank /\ x.id < y.id

\* rows of the Primary Store with a missing field
RowsMissing == { i \in 1..Len(dictionary) : MissingField(dictionary[i]) }

\* C25: selection: right after the selection query, its result holds exactly
\* the first batch_size entries, by descending frequency_rank then ascending
\* id, of the entries with empty or null zhuyin, vi_meaning or
\* hanviet_reading: every returned row is such an entry of the store, their
\* number is min(batch_size, number of such entries), they are in that order,
\* and every such entry left out comes after all returned ones; an empty
\* result means there is no such entry.
C25_Selection ==
    /\ last_step = "select" =>
          /\ \A k \in 1..Len(entries) :
                 /\ entries[k].id \in 1..Len(dictionary)
                 /\ entries[k] = dictionary[entries[k].id]
                 /\ MissingField(entries[k])
          /\ Len(entries) = Min(batch_size, Cardinality(RowsMissing))
          /\ \A k \in 1..(Len(entries) - 1) : RankedBefore(entries[k], entries[k + 1])
          /\ \A i \in RowsMissing :
                 (\A k \in 1..Len(entries) : entries[k].id # i) =>
                     \A k \in 1..Len(entries) : RankedBefore(entries[k], dictionary[i])
    /\ last_step = "empty" => RowsMissing = {}

\* C25 witness: a selection cut by its limit, with two returned entries of
\* different rank, a third entry left out, or a store with a complete entry
\* that is not returned
C25_Witness ==
    /\ last_step = "select"
    /\ Len(entries) = batch_size
    /\ Cardinality(RowsMissing) > batch_size
    /\ \E i \in 1..Len(dictionary) : ~MissingField(dictionary[i])

\* ids of the entries the selection query would return without its LIMIT
CandidateIds(rows) == { Candidates(rows)[k].id : k \in 1..Len(Candidates(rows)) }

\* C30: no entry is processed twice in one enhance_batch run: an entry passed
\* to enhance_entry was not passed to it before in the same run, and a
\* finished run has handled min(max_entries, number of candidates at its
\* start) distinct entries (the candidates at the start are the entries
\* handled and the entries that are still candidates).
C30_NoEntryTwice ==
    /\ [][last_step' \in {"enhance", "except"} => Head(entries).id \notin handled_ids]_vars
    /\ [](bpc = "done" =>
             Cardinality(handled_ids) =
                 Min(max_entries, Cardinality(handled_ids \cup CandidateIds(dictionary))))

\* the scalar fields an Enrichment Client result is stored in
ScalarFields == {"zhuyin", "hanviet_reading", "vi_meaning"}

\* C21: per-entry persistence is one all-or-nothing update: enhance_entry
\* returns True exactly when a field of the entry was written; when it returns
\* False no field of any entry has changed; and every scalar field (zhuyin,
\* hanviet_reading, vi_meaning) for which a non-empty result was accepted
\* into the updates has that value in the Primary Store after the call.
C21_AllOrNothingUpdate ==
    [][LET i == enhanced_entry'.id
       IN  /\ (entry_returned' = "True") <=> (dictionary'[i] # dictionary[i])
           /\ (entry_returned' = "False") => (dictionary' = dictionary)
           /\ \A f \in ScalarFields :
                  f \in DOMAIN entry_updates' => dictionary'[i][f] = entry_updates'[f]]_vars

-----------------------------------------------------------------------------
(* Enrichment Client: deepseek_enhancer.py *)

TextSymbols == {"{", "}", "[", "]", "m", "w", " "}

\* what the HTTP request can do: fail in transport, answer with an error
\* status, with a body that is not JSON, with JSON without choices, with a
\* choice without message content, or with a content text
ApiOutcomes ==
    { [kind |-> k, content |-> <<>>] :
        k \in {"network_error", "http_error", "bad_body", "no_choices", "bad_choice"} }
    \cup { [kind |-> "ok", content |-> t] : t \in SeqsUpTo(TextSymbols, MaxText) }

\* the exception the try block of _call_deepseek_api raises
api_raises(outcome) ==
    CASE outcome.kind = "network_error" -> "ConnectionError"
      [] outcome.kind = "http_error" -> "HTTPError"
      [] outcome.kind = "bad_body" -> "JSONDecodeError"
      [] outcome.kind = "bad_choice" -> "KeyError"
      [] OTHER -> "none"

\* the except clauses of _call_deepseek_api: RequestException,
\* json.JSONDecodeError, Exception
api_catches(exc) ==
    \/ exc \in {"ConnectionError", "HTTPError"}
    \/ exc = "JSONDecodeError"
    \/ exc \in {"ConnectionError", "HTTPError", "JSONDecodeError", "ValueError",
                "KeyError", "TypeError"}

\* _call_deepseek_api: the exception that leaves it ("none" when it returns)
\* and the value it returns (NULL for None)
call_deepseek_api(outcome) ==
    LET raised == api_raises(outcome)
    IN  IF raised = "none"
        THEN [exc |-> "none",
              value |-> IF outcome.kind = "ok" THEN Strip(outcome.content) ELSE NULL]
        ELSE IF api_catches(raised)
             THEN [exc |-> "none", value |-> NULL]
             ELSE [exc |-> raised, value |-> NULL]

\* str.find and str.rfind, positions counted from 0, -1 when absent
Find(s, c) ==
    LET hits == { i \in 1..Len(s) : s[i] = c }
    IN  IF hits = {} THEN 0 - 1 ELSE (CHOOSE i \in hits : \A j \in hits : i <= j) - 1

RFind(s, c) ==
    LET hits == { i \in 1..Len(s) : s[i] = c }
    IN  IF hits = {} THEN 0 - 1 ELSE (CHOOSE i \in hits : \A j \in hits : i >= j) - 1

\* the slice s[from:to]
Slice(s, from, to) == SubSeq(s, from + 1, to)

\* faulty variant: the except clause names the wrong exceptions
parse_catches_other(exc) == exc \in {"KeyError", "TypeError"}

\* "except (json.JSONDecodeError, ValueError)" of the three parsing methods
parse_catches(exc) == exc \in {"JSONDecodeError", "ValueError"}

\* the body shared by enhance_missing_pronunciation, enhance_missing_examples
\* and enhance_missing_grammar_info after the API call: extract the text from
\* the first opening to the last closing bracket and parse it
parse_bracketed(response, opening, closing, empty) ==
    IF ~Truthy(response) THEN [exc |-> "none", value |-> empty]
    ELSE LET json_start == Find(response, opening)
             json_end == RFind(response, closing) + 1
         IN  IF json_start >= 0 /\ json_end > json_start
             THEN LET parsed == json_loads(Slice(response, json_start, json_end))
                  IN  IF parsed.exc = "none" THEN [exc |-> "none", value |-> parsed.value]
                      ELSE IF parse_catches(parsed.exc) THEN [exc |-> "none", value |-> empty]
                      ELSE [exc |-> parsed.exc, value |-> empty]
             ELSE [exc |-> "none", value |-> empty]

enhance_missing_pronunciation(outcome) ==
    LET response == call_deepseek_api(outcome)
    IN  IF response.exc # "none" THEN response
        ELSE parse_bracketed(response.value, "{", "}", <<"{", "}">>)

enhance_missing_vietnamese(outcome) ==
    LET response == call_deepseek_api(outcome)
    IN  IF response.exc # "none" THEN response
        ELSE [exc |-> "none",
              value |-> IF Truthy(response.value) THEN Strip(response.value) ELSE <<>>]

enhance_missing_examples(outcome) ==
    LET response == call_deepseek_api(outcome)
    IN  IF response.exc # "none" THEN response
        ELSE parse_bracketed(response.value, "[", "]", <<"[", "]">>)

enhance_missing_grammar_info(outcome) ==
    LET response == call_deepseek_api(outcome)
    IN  IF response.exc # "none" THEN response
        ELSE parse_bracketed(response.value, "{", "}", <<"{", "}">>)

InitClient ==
    /\ dictionary = <<>>
    /\ cedict_entries = <<>>
    /\ ReconcilerIdle
    /\ BatchIdle
    /\ ClientIdle
    /\ CommandIdle
    /\ PinyinIdle
    /\ EntryIdle
    /\ IntegratorIdle
    /\ RateIdle

CallPronunciation ==
    /\ request = "none"
    /\ \E outcome \in ApiOutcomes :
          /\ api_outcome' = outcome
          /\ returned' = enhance_missing_pronunciation(outcome)
    /\ request' = "pronunciation"
    /\ UNCHANGED <<reconcilerVars, batchVars, toolVars>>

CallVietnamese ==
    /\ request = "none"
    /\ \E outcome \in ApiOutcomes :
          /\ api_outcome' = outcome
          /\ returned' = enhance_missing_vietnamese(outcome)
    /\ request' = "vietnamese"
    /\ UNCHANGED <<reconcilerVars, batchVars, toolVars>>

CallExamples ==
    /\ request = "none"
    /\ \E outcome \in ApiOutcomes :
          /\ api_outcome' = outcome
          /\ returned' = enhance_missing_examples(outcome)
    /\ request' = "examples"
    /\ UNCHANGED <<reconcilerVars, batchVars, toolVars>>

CallGrammar ==
    /\ request = "none"
    /\ \E outcome \in ApiOutcomes :
          /\ api_outcome' = outcome
          /\ returned' = enhance_missing_grammar_info(outcome)
    /\ request' = "grammar"
    /\ UNCHANGED <<reconcilerVars, batchVars, toolVars>>

NextClient ==
    \/ CallPronunciation
    \/ CallVietnamese
    \/ CallExamples
    \/ CallGrammar

SpecClient == InitClient /\ [][NextClient]_vars

-----------------------------------------------------------------------------
(* Properties of the Enrichment Client *)

\* the empty result of a request kind
EmptyResult(kind) ==
    CASE kind = "examples" -> <<"[", "]">>
      [] kind = "vietnamese" -> <<>>
      [] OTHER -> <<"{", "}">>

OpeningOf(kind) == IF kind = "examples" THEN "[" ELSE "{"

ClosingOf(kind) == IF kind = "examples" THEN "]" ELSE "}"

\* the text has an opening bracket of the kind, a closing one after it, and
\* the text from the first opening to the last closing bracket is valid JSON
ValidBracketed(text, kind) ==
    LET opens == { i \in 1..Len(text) : text[i] = OpeningOf(kind) }
        closes == { i \in 1..Len(text) : text[i] = ClosingOf(kind) }
    IN  /\ opens # {}
        /\ closes # {}
        /\ \E i \in opens, j \in closes :
              /\ \A k \in opens : i <= k
              /\ \A k \in closes : k <= j
              /\ i < j
              /\ IsJsonValue(NoSpace(SubSeq(text, i, j)))

-----------------------------------------------------------------------------
(* Command lines: main() of integrate_cedict.py, deepseek_enhancer.py and   *)
(* ai_data_completion.py                                                    *)

CommandStores == { rows \in EnhanceStores : Len(rows) <= MaxCommandRows }

CommandSources ==
    { Renumber(SubSeq(CedictUniverse, 1, n)) : n \in 0..MaxCommandSource }

\* sqlite3.connect creates the file when it is missing
sqlite_connect(db) == IF db = "missing" THEN "empty" ELSE db

\* table dictionary exists in the file
has_table(db) == db \in {"base", "integrated"}

\* _verify_databases: the exception it raises, "none" when it returns
verify_databases(main, cedict) ==
    IF main = "missing" \/ cedict = "missing" THEN "FileNotFoundError" ELSE "none"

\* cursor.fetchone()[0] on a row of "SELECT COUNT(*)": a connection whose
\* row_factory builds a dict gives {'COUNT(*)': n}, which has no key 0
fetchone_0(row_factory) == IF row_factory = "dict" THEN "KeyError" ELSE "none"

\* get_initial_statistics on self.conn, whose row_factory builds dicts: the
\* exception it raises
get_initial_statistics(db) ==
    IF has_table(db) THEN fetchone_0("dict") ELSE "OperationalError"

\* find_entries_needing_enhancement as the first statement of enhance_batch:
\* the exception it raises
first_selection(db) == IF has_table(db) THEN "none" ELSE "OperationalError"

\* main() of deepseek_enhancer.py exits when no key is set; main() of
\* ai_data_completion.py prints a warning and goes on
missing_key_is_fatal(cmd) == cmd = "batch"

\* faulty variant: the handler of main() exits with status 0
exit_status_zero(exc) == 0

\* "except Exception: ... sys.exit(1)" of the three main() functions
exit_status(exc) == IF exc = "none" THEN 0 ELSE 1

\* the setup faults a command meets in the stores and the environment as they
\* are when it starts
setup_faults(cmd, main, cedict, key) ==
    (IF main = "missing" THEN {"primary_missing"} ELSE {})
    \cup (IF cedict = "missing" /\ cmd \in {"integrate", "stats", "workflow"}
          THEN {"source_missing"} ELSE {})
    \cup (IF ~key /\ cmd = "batch" THEN {"no_credential"} ELSE {})

InitCommand ==
    /\ main_db \in {"missing", "base", "integrated"}
    /\ cedict_db \in {"missing", "present"}
    /\ api_key \in BOOLEAN
    /\ dictionary \in IF main_db = "missing" THEN { <<>> } ELSE CommandStores
    /\ cedict_entries \in IF cedict_db = "missing" THEN { <<>> } ELSE CommandSources
    /\ ReconcilerIdle
    /\ BatchIdle
    /\ ClientIdle
    /\ command = "none"
    /\ cedict_limit = 0
    /\ ai_limit = 0
    /\ cpc = "shell"
    /\ exit_code = 0
    /\ steps = <<>>
    /\ faults = {}
    /\ PinyinIdle
    /\ EntryIdle
    /\ IntegratorIdle
    /\ RateIdle

\* the exit of a command with the exception that reached main()
Exit(exc) ==
    /\ cpc' = "exit"
    /\ exit_code' = exit_status(exc)

\* a command line is started
CommandStart(cmd, K, budget) ==
    /\ cpc = "shell"
    /\ command' = cmd
    /\ cedict_limit' = K
    /\ ai_limit' = budget
    /\ faults' = setup_faults(cmd, main_db, cedict_db, api_key)
    /\ cpc' = "main"
    /\ UNCHANGED <<reconcilerVars, batchVars, clientVars, pinyinVars, entryVars, integratorVars, rateVars,
                   main_db, cedict_db, api_key, exit_code, steps>>

\* main() finds no API key and exits
MissingKeyExit ==
    /\ cpc = "main"
    /\ ~api_key
    /\ missing_key_is_fatal(command)
    /\ Exit("MissingKey")
    /\ UNCHANGED <<reconcilerVars, batchVars, clientVars, pinyinVars, entryVars, integratorVars, rateVars,
                   main_db, cedict_db, api_key, command, cedict_limit, ai_limit,
                   steps, faults>>

\* integrate_cedict.py: CEDICTIntegrator() raises in _verify_databases
VerifyFails ==
    /\ cpc = "main"
    /\ command \in {"integrate", "stats"}
    /\ ~(~api_key /\ missing_key_is_fatal(command))
    /\ verify_databases(main_db, cedict_db) # "none"
    /\ Exit(verify_databases(main_db, cedict_db))
    /\ UNCHANGED <<reconcilerVars, batchVars, clientVars, pinyinVars, entryVars, integratorVars, rateVars,
                   main_db, cedict_db, api_key, command, cedict_limit, ai_limit,
                   steps, faults>>

\* integrate_cedict.py stats: both statistics are read on connections
\* without a row factory
StatsCommand ==
    /\ cpc = "main"
    /\ command = "stats"
    /\ ~(~api_key /\ missing_key_is_fatal(command))
    /\ verify_databases(main_db, cedict_db) = "none"
    /\ steps' = Append(steps, "stats")
    /\ Exit(fetchone_0("tuple"))
    /\ UNCHANGED <<reconcilerVars, batchVars, clientVars, pinyinVars, entryVars, integratorVars, rateVars,
                   main_db, cedict_db, api_key, command, cedict_limit, ai_limit, faults>>

\* integrate_cedict.py integrate: the constructor and
\* add_missing_database_columns of integrate_full
IntegrateCommand ==
    /\ cpc = "main"
    /\ command = "integrate"
    /\ ~(~api_key /\ missing_key_is_fatal(command))
    /\ verify_databases(main_db, cedict_db) = "none"
    /\ main_db' = "integrated"
    /\ cpc' = "integrating"
    /\ UNCHANGED <<reconcilerVars, batchVars, clientVars, pinyinVars, entryVars, integratorVars, rateVars,
                   cedict_db, api_key, command, cedict_limit, ai_limit,
                   exit_code, steps, faults>>

\* the rest of integrate_full starts
RunIntegrate ==
    /\ cpc = "integrating"
    /\ Len(results) = 0
    /\ IntegrateStart(cedict_limit)

\* integrate_full has returned: the results are printed
IntegrateReturns ==
    /\ cpc = "integrating"
    /\ pc = "idle"
    /\ Len(results) = 1
    /\ steps' = Append(steps, "reconcile")
    /\ Exit("none")
    /\ UNCHANGED <<reconcilerVars, batchVars, clientVars, pinyinVars, entryVars, integratorVars, rateVars,
                   main_db, cedict_db, api_key, command, cedict_limit, ai_limit, faults>>

\* deepseek_enhancer.py batch: the constructor and the first selection of
\* enhance_batch
BatchCommand ==
    /\ cpc = "main"
    /\ command = "batch"
    /\ ~(~api_key /\ missing_key_is_fatal(command))
    /\ main_db' = sqlite_connect(main_db)
    /\ IF first_selection(main_db') = "none"
       THEN /\ cpc' = "enhancing"
            /\ UNCHANGED exit_code
       ELSE Exit(first_selection(main_db'))
    /\ UNCHANGED <<reconcilerVars, batchVars, clientVars, pinyinVars, entryVars, integratorVars, rateVars,
                   cedict_db, api_key, command, cedict_limit, ai_limit, steps, faults>>

\* enhance_batch starts
RunBatch(size) ==
    /\ cpc = "enhancing"
    /\ EnhanceBatchStart(size, ai_limit)

\* enhance_batch has returned: the count is printed
BatchReturns ==
    /\ cpc = "enhancing"
    /\ bpc = "done"
    /\ steps' = Append(steps, "enhance")
    /\ Exit("none")
    /\ UNCHANGED <<reconcilerVars, batchVars, clientVars, pinyinVars, entryVars, integratorVars, rateVars,
                   main_db, cedict_db, api_key, command, cedict_limit, ai_limit, faults>>

\* ai_data_completion.py: the constructor and run_complete_workflow up to
\* get_initial_statistics, its first statement, which raises whenever it runs
WorkflowCommand ==
    /\ cpc = "main"
    /\ command = "workflow"
    /\ ~(~api_key /\ missing_key_is_fatal(command))
    /\ main_db' = sqlite_connect(main_db)
    /\ IF get_initial_statistics(main_db') = "none"
       THEN /\ cpc' = "step1"
            /\ UNCHANGED exit_code
       ELSE Exit(get_initial_statistics(main_db'))
    /\ UNCHANGED <<reconcilerVars, batchVars, clientVars, pinyinVars, entryVars, integratorVars, rateVars,
                   cedict_db, api_key, command, cedict_limit, ai_limit, steps, faults>>

NextCommand ==
    \/ \E K \in 0..MaxCap : CommandStart("integrate", K, 0)
    \/ CommandStart("stats", 0, 0)
    \/ \E K \in 0..MaxCap, budget \in 0..MaxCommandBudget : CommandStart("workflow", K, budget)
    \/ \E budget \in 0..MaxCommandBudget : CommandStart("batch", 0, budget)
    \/ MissingKeyExit
    \/ VerifyFails
    \/ StatsCommand
    \/ IntegrateCommand
    \/ RunIntegrate
    \/ UpdateEntry
    \/ SelectNewEntries
    \/ InsertEntry
    \/ IntegrateFinish
    \/ IntegrateReturns
    \/ BatchCommand
    \/ \E size \in 1..MaxBatch : RunBatch(size)
    \/ SelectBatch
    \/ NoMoreEntries
    \/ BudgetReached
    \/ EnhanceEntry
    \/ EnhanceEntryRaises
    \/ ForBreak
    \/ ForEnd
    \/ BatchReturns
    \/ WorkflowCommand

SpecCommand == InitCommand /\ [][NextCommand]_vars

-----------------------------------------------------------------------------
(* Properties of the command lines *)

StepsDone == { steps[k] : k \in 1..Len(steps) }

\* C13: a missing credential skips only the enrichment in the combined
\* workflow: started with no API key on stores that are in place, the
\* workflow sends no request to the Enrichment Client and ends with exit
\* status 0 after the reconciliation, the quality check and the report.
C13_WorkflowWithoutKey ==
    (command = "workflow" /\ ~api_key /\ faults = {}) =>
        /\ last_step = "none"
        /\ cpc = "exit" =>
              /\ exit_code = 0
              /\ {"reconcile", "quality", "report"} \subseteq StepsDone
              /\ "enhance" \notin StepsDone

-----------------------------------------------------------------------------
(* Tone conversion: pinyin_utils.py.  A letter is one symbol; the symbol    *)
(* "u:" is the letter u with diaeresis, and a letter with a tone mark is    *)
(* the symbol of the letter followed by the tone, "a3" for a with caron.    *)

PinyinVowels == <<"a", "e", "i", "o", "u", "u:", "A", "E", "I", "O", "U", "U:">>

\* tone_marks[v][tone]
tone_marks(v, tone) ==
    LET row == CASE v = "a" -> <<"a", "a1", "a2", "a3", "a4">>
                 [] v = "e" -> <<"e", "e1", "e2", "e3", "e4">>
                 [] v = "i" -> <<"i", "i1", "i2", "i3", "i4">>
                 [] v = "o" -> <<"o", "o1", "o2", "o3", "o4">>
                 [] v = "u" -> <<"u", "u1", "u2", "u3", "u4">>
                 [] v = "u:" -> <<"u:", "u:1", "u:2", "u:3", "u:4">>
                 [] v = "A" -> <<"A", "A1", "A2", "A3", "A4">>
                 [] v = "E" -> <<"E", "E1", "E2", "E3", "E4">>
                 [] v = "I" -> <<"I", "I1", "I2", "I3", "I4">>
                 [] v = "O" -> <<"O", "O1", "O2", "O3", "O4">>
                 [] v = "U" -> <<"U", "U1", "U2", "U3", "U4">>
                 [] v = "U:" -> <<"U:", "U:1", "U:2", "U:3", "U:4">>
    IN  row[tone + 1]

\* str.isdigit and int of one character
IsDigit(c) == c \in {"0", "1", "2", "3", "4", "5", "6", "7", "8", "9"}

DigitValue(c) ==
    CASE c = "0" -> 0 [] c = "1" -> 1 [] c = "2" -> 2 [] c = "3" -> 3 [] c = "4" -> 4
      [] c = "5" -> 5 [] c = "6" -> 6 [] c = "7" -> 7 [] c = "8" -> 8 [] c = "9" -> 9

\* "c in word"
Has(word, c) == \E i \in 1..Len(word) : word[i] = c

\* word.replace(c, d, 1)
Replace1(word, c, d) ==
    IF Has(word, c)
    THEN LET first == CHOOSE i \in 1..Len(word) :
                          word[i] = c /\ \A j \in 1..(i - 1) : word[j] # c
         IN  [word EXCEPT ![first] = d]
    ELSE word

\* str.split(): the words between runs of white space; word is the word
\* being read
RECURSIVE SplitFrom(_, _)
SplitFrom(s, word) ==
    IF s = <<>> THEN (IF word = <<>> THEN <<>> ELSE <<word>>)
    ELSE IF Head(s) = " "
         THEN (IF word = <<>> THEN <<>> ELSE <<word>>) \o SplitFrom(Tail(s), <<>>)
         ELSE SplitFrom(Tail(s), Append(word, Head(s)))

Split(s) == SplitFrom(s, <<>>)

\* ' '.join(words)
RECURSIVE Join(_)
Join(words) ==
    IF words = <<>> THEN <<>>
    ELSE IF Len(words) = 1 THEN words[1]
    ELSE words[1] \o <<" ">> \o Join(Tail(words))

\* the first v of the vowel list that is in clean_word, 0 when there is none
first_vowel(clean_word) ==
    LET hits == { k \in 1..Len(PinyinVowels) : Has(clean_word, PinyinVowels[k]) }
    IN  IF hits = {} THEN 0 ELSE CHOOSE k \in hits : \A j \in hits : k <= j

\* the special case for 'iu' and 'ui'
vowel_to_mark(v, clean_word) ==
    IF v = "i" /\ Has(clean_word, "u") /\ ~Has(clean_word, "a")
       /\ ~Has(clean_word, "o") /\ ~Has(clean_word, "e")
    THEN "u"
    ELSE IF v = "u" /\ Has(clean_word, "i") /\ ~Has(clean_word, "a")
            /\ ~Has(clean_word, "o") /\ ~Has(clean_word, "e")
         THEN "i"
         ELSE v

\* body of the loop over words
convert_word(word) ==
    LET has_tone == word # <<>> /\ IsDigit(word[Len(word)])
        tone == IF has_tone THEN DigitValue(word[Len(word)]) ELSE 0
        clean_word == IF has_tone THEN SubSeq(word, 1, Len(word) - 1) ELSE word
        k == first_vowel(clean_word)
    IN  IF tone < 1 \/ tone > 4 THEN word
        ELSE IF k = 0 THEN clean_word
        ELSE LET v == vowel_to_mark(PinyinVowels[k], clean_word)
             IN  Replace1(clean_word, v, tone_marks(v, tone))

convert_pinyin_tone_numbers(pinyin) ==
    IF ~Truthy(pinyin) THEN pinyin
    ELSE LET words == Split(pinyin)
         IN  Join([k \in 1..Len(words) |-> convert_word(words[k])])

\* syllables without their tone
SyllableBodies ==
    { <<"m", "a">>, <<"n", "i">>, <<"s", "u", "i">>, <<"l", "i", "u">>,
      <<"n", "v">>, <<"g", "u", "o">>, <<"x", "u", "e">> }

ToneDigit(tone) ==
    CASE tone = 1 -> "1" [] tone = 2 -> "2" [] tone = 3 -> "3" [] tone = 4 -> "4"
      [] OTHER -> "5"

\* a syllable of the argument: its letters, its tone number, and whether the
\* next syllable follows it without a space
SyllableTokens ==
    { [body |-> b, tone |-> t, joined |-> j] :
        b \in SyllableBodies, t \in 1..5, j \in BOOLEAN }

\* the arguments of at most n syllables
PinyinInputs(n) ==
    { q \in SeqsUpTo(SyllableTokens, n) : Len(q) >= 1 /\ ~q[Len(q)].joined }

\* the text of a sequence of syllables
RECURSIVE Render(_)
Render(syllables) ==
    IF syllables = <<>> THEN <<>>
    ELSE Append(Head(syllables).body, ToneDigit(Head(syllables).tone))
         \o (IF Len(syllables) > 1 /\ ~Head(syllables).joined THEN <<" ">> ELSE <<>>)
         \o Render(Tail(syllables))

InitPinyin ==
    /\ dictionary = <<>>
    /\ cedict_entries = <<>>
    /\ ReconcilerIdle
    /\ BatchIdle
    /\ ClientIdle
    /\ CommandIdle
    /\ pinyin_syllables \in PinyinInputs(MaxSyllables)
    /\ pinyin_input = Render(pinyin_syllables)
    /\ pinyin_output = NULL
    /\ EntryIdle
    /\ IntegratorIdle
    /\ RateIdle

\* one call of convert_pinyin_tone_numbers
Convert ==
    /\ pinyin_output = NULL
    /\ pinyin_output' = convert_pinyin_tone_numbers(pinyin_input)
    /\ UNCHANGED <<reconcilerVars, batchVars, clientVars, commandVars, entryVars,
                   integratorVars, rateVars,
                   pinyin_syllables, pinyin_input>>

NextPinyin == Convert

SpecPinyin == InitPinyin /\ [][NextPinyin]_vars

-----------------------------------------------------------------------------
(* Properties of the tone conversion *)

\* positions of the vowels of a syllable, v standing for u with diaeresis
VowelPositions(body) ==
    { i \in 1..Len(body) : body[i] \in {"a", "e", "i", "o", "u", "u:", "v"} }

\* the syllable with the tone mark on the letter at position i
MarkedAt(body, i, tone) ==
    [body EXCEPT ![i] = tone_marks(IF body[i] = "v" THEN "u:" ELSE body[i], tone)]

\* the texts in which every syllable has lost its digit and carries its mark
\* on one of its vowels
RECURSIVE MarkedTexts(_)
MarkedTexts(syllables) ==
    IF syllables = <<>> THEN { <<>> }
    ELSE LET syllable == Head(syllables)
             gap == IF Len(syllables) > 1 /\ ~syllable.joined THEN <<" ">> ELSE <<>>
         IN  { MarkedAt(syllable.body, i, syllable.tone) \o gap \o rest :
                 i \in VowelPositions(syllable.body),
                 rest \in MarkedTexts(Tail(syllables)) }

\* C15: the conversion handles every syllable: for an argument whose
\* syllables all end in a tone digit 1-4, separated by spaces or written
\* together, the result has no digit and every syllable carries the mark of
\* its own tone on one of its vowels.
C15_EverySyllableConverted ==
    (pinyin_output # NULL
       /\ \A k \in 1..Len(pinyin_syllables) : pinyin_syllables[k].tone \in 1..4) =>
        /\ \A i \in 1..Len(pinyin_output) : ~IsDigit(pinyin_output[i])
        /\ pinyin_output \in MarkedTexts(pinyin_syllables)

\* the position of c in a syllable that has it
PositionOf(body, c) == CHOOSE i \in 1..Len(body) : body[i] = c

\* the syllable holds x directly followed by y
HasPair(body, x, y) == \E i \in 1..(Len(body) - 1) : body[i] = x /\ body[i + 1] = y

\* C16: mark placement and neutral tone for a single syllable: the mark goes
\* on a or e if present, otherwise on the last vowel of ui / iu; v is output
\* as u with diaeresis carrying the mark; tone 5 is output without its digit.
C16_MarkPlacement ==
    (pinyin_output # NULL /\ Len(pinyin_syllables) = 1) =>
        LET body == pinyin_syllables[1].body
            tone == pinyin_syllables[1].tone
        IN  /\ tone = 5 => pinyin_output = body
            /\ (tone # 5 /\ Has(body, "a")) =>
                   pinyin_output = MarkedAt(body, PositionOf(body, "a"), tone)
            /\ (tone # 5 /\ Has(body, "e")) =>
                   pinyin_output = MarkedAt(body, PositionOf(body, "e"), tone)
            /\ (tone # 5 /\ HasPair(body, "u", "i")) =>
                   pinyin_output = MarkedAt(body, PositionOf(body, "i"), tone)
            /\ (tone # 5 /\ HasPair(body, "i", "u")) =>
                   pinyin_output = MarkedAt(body, PositionOf(body, "u"), tone)
            /\ (tone # 5 /\ Has(body, "v")) =>
                   pinyin_output = MarkedAt(body, PositionOf(body, "v"), tone)

====
